---- MODULE Spec2Model ----
(***************************************************************************)
(* Model of the in-memory banking fraud detector of fraud_detection.c: a   *)
(* chained hash map of customers, one B-tree of transactions per customer  *)
(* (minimum degree T), and the fraud analysis run over a customer's tree.  *)
(*                                                                         *)
(* Memory is modelled as two heaps: `nodes` holds every BTreeNode that     *)
(* createBTreeNode allocated and `customers` every Customer that           *)
(* createCustomer allocated.  A pointer is an index into its heap, NULL is *)
(* 0.  Arrays keep their C size and their 0-based indices; slots that the  *)
(* code never wrote hold Uninit.  The fields of a Transaction that are     *)
(* only ever printed (counterparty_id, channel, terminal_id) are left out. *)
(***************************************************************************)
EXTENDS Integers, Sequences, FiniteSets, Bags, TLC

\* ---- program constants -------------------------------------------------
T == 3
MAX_TRANSACTIONS == 2 * T - 1
MAX_CHILDREN == 2 * T
HASH_MAP_SIZE == 100
SECONDS_IN_HOUR == 3600
TXN_LIMIT_PER_HOUR == 25
TXN_WARNING_THRESHOLD == 15
\* generateTransaction: time_key = current_time * 1000000LL + rand() % 1000000
KEY_SCALE == 1000000

NULL == 0

\* ---- bounds of the model -----------------------------------------------
\* value of time(NULL) when the program starts
StartTime == 7200
\* Spec: number of transactions accepted over all customers, clock ticks
MaxTxns == 2
MaxTicks == 1
\* SpecTree: number of transactions accepted into the one customer's tree
MaxTreeTxns == 10
\* SpecDeep: number of transactions accepted into the one customer's tree
MaxDeepTxns == 19
\* SpecVelocity: number of transactions accepted, clock ticks
MaxVelTxns == 26
MaxVelTicks == 1
\* SpecTwoTrees: number of transactions accepted into each customer's tree
MaxPairTxns == 6
\* SpecRootSplit: number of transactions accepted into the one customer's tree
MaxSplitTxns == 6
\* SpecNaitik: number of add-transaction requests that reach insertTransaction
MaxNaitikTxns == 7

VARIABLES
    nodes,      \* heap of BTreeNode, indexed by pointer
    customers,  \* heap of Customer, indexed by pointer
    table,      \* HashMap.table: bucket index -> Customer pointer
    now,        \* the wall clock read by time(NULL)
    ticks,      \* number of clock ticks so far
    added,      \* per Customer pointer: bag of the transactions handed to insertTransaction
    out         \* what the last menu handler reported

vars == <<nodes, customers, table, now, ticks, added, out>>

\* ---- data structures ---------------------------------------------------
\* Transaction (lines 25-35)
Transaction(time_key, id, amount, date_time, type) ==
    [time_key |-> time_key, id |-> id, amount |-> amount,
     date_time |-> date_time, type |-> type]

\* A time_key (long long) is current_time * KEY_SCALE + rand() % KEY_SCALE,
\* which does not fit the 32-bit integers of the model checker.  It is kept
\* as its two digits in base KEY_SCALE, <<seconds, fraction>>, and compared
\* as the 64-bit number they denote.
TimeKey(seconds, fraction) == <<seconds, fraction>>
KeyLess(a, b) == a[1] < b[1] \/ (a[1] = b[1] /\ a[2] < b[2])
KeyLeq(a, b) == ~KeyLess(b, a)

\* content of a transactions[] slot that was never written
Uninit == Transaction(TimeKey(0, 0), 0, 0, 0, "?")

TxnIdx == 0 .. (MAX_TRANSACTIONS - 1)
ChildIdx == 0 .. (MAX_CHILDREN - 1)

\* createBTreeNode (lines 86-98): the node, and the heap after the allocation
NewBTreeNode(leaf) ==
    [transactions |-> [j \in TxnIdx |-> Uninit],
     children |-> [j \in ChildIdx |-> NULL],
     n |-> 0,
     is_leaf |-> leaf]

createBTreeNode(h, leaf) == Append(h, NewBTreeNode(leaf))

\* ---- A. B-tree operations ----------------------------------------------

\* the scan `while (i >= 0 && x->transactions[i].time_key > key) i--;`
\* of BTreeInsertNonFull: the value of i when the loop ends
RECURSIVE ScanDown(_, _, _)
ScanDown(trs, i, key) ==
    IF i >= 0 /\ KeyLess(key, trs[i].time_key)
        THEN ScanDown(trs, i - 1, key)
        ELSE i

\* BTreeSplitChild (lines 117-146): y = x->children[i] is full

\* a split that copies from the median on (j + T - 1 for j + T)
SplitUpperKeysFromMedian(y) ==
    [j \in TxnIdx |-> IF j < T - 1 THEN y.transactions[j + T - 1] ELSE Uninit]

\* z's keys: y's keys T .. 2T-2
SplitUpperKeys(y) ==
    [j \in TxnIdx |-> IF j < T - 1 THEN y.transactions[j + T] ELSE Uninit]

\* a split that forgets to hand y's upper children to z
SplitUpperChildrenNotMoved(y) == [j \in ChildIdx |-> NULL]

\* z's children: y's children T .. 2T-1 when y is internal
SplitUpperChildren(y) ==
    [j \in ChildIdx |->
        IF ~y.is_leaf /\ j < T THEN y.children[j + T] ELSE NULL]

\* a split that forgets `y->children[j + T] = NULL`
SplitLowerChildrenNotCleared(y) == y.children

\* y's children after the move: T .. 2T-1 are cleared when y is internal
SplitLowerChildren(y) ==
    [j \in ChildIdx |->
        IF ~y.is_leaf /\ j >= T /\ j < 2 * T THEN NULL ELSE y.children[j]]

\* x's children: children i+1 .. n shifted right, z placed at i+1
SplitParentChildren(x, i, z) ==
    [j \in ChildIdx |->
        IF j = i + 1 THEN z
        ELSE IF j > i + 1 /\ j <= x.n + 1 THEN x.children[j - 1]
        ELSE x.children[j]]

\* a split that moves up the key after the median
SplitParentKeysUpperMedian(x, i, y) ==
    [j \in TxnIdx |->
        IF j = i THEN y.transactions[T]
        ELSE IF j > i /\ j <= x.n THEN x.transactions[j - 1]
        ELSE x.transactions[j]]

\* x's keys: keys i .. n-1 shifted right, the median y[T-1] placed at i
SplitParentKeys(x, i, y) ==
    [j \in TxnIdx |->
        IF j = i THEN y.transactions[T - 1]
        ELSE IF j > i /\ j <= x.n THEN x.transactions[j - 1]
        ELSE x.transactions[j]]

\* a split that forgets `y->n = T - 1` (line 134)
BTreeSplitChildCountKept(h, x, i, y) ==
    LET h1 == createBTreeNode(h, h[y].is_leaf)
        z == Len(h1)
        zn == [h1[z] EXCEPT !.n = T - 1,
                            !.transactions = SplitUpperKeys(h[y]),
                            !.children = SplitUpperChildren(h[y])]
        yn == [h[y] EXCEPT !.children = SplitLowerChildren(h[y])]
        xn == [h[x] EXCEPT !.children = SplitParentChildren(h[x], i, z),
                           !.transactions = SplitParentKeys(h[x], i, h[y]),
                           !.n = h[x].n + 1]
    IN [h1 EXCEPT ![z] = zn, ![y] = yn, ![x] = xn]

BTreeSplitChild(h, x, i, y) ==
    LET h1 == createBTreeNode(h, h[y].is_leaf)
        z == Len(h1)
        zn == [h1[z] EXCEPT !.n = T - 1,
                            !.transactions = SplitUpperKeys(h[y]),
                            !.children = SplitUpperChildren(h[y])]
        yn == [h[y] EXCEPT !.n = T - 1,
                           !.children = SplitLowerChildren(h[y])]
        xn == [h[x] EXCEPT !.children = SplitParentChildren(h[x], i, z),
                           !.transactions = SplitParentKeys(h[x], i, h[y]),
                           !.n = h[x].n + 1]
    IN [h1 EXCEPT ![z] = zn, ![y] = yn, ![x] = xn]

\* a leaf insert that skips the scan and writes the key behind the others
LeafInsertAtEnd(x, t) ==
    [x EXCEPT !.transactions[x.n] = t, !.n = x.n + 1]

\* BTreeInsertNonFull, leaf branch (lines 153-159)
LeafInsert(x, t) ==
    LET i == ScanDown(x.transactions, x.n - 1, t.time_key)
    IN [x EXCEPT !.transactions =
                    [j \in TxnIdx |->
                        IF j = i + 1 THEN t
                        ELSE IF j > i + 1 /\ j <= x.n THEN x.transactions[j - 1]
                        ELSE x.transactions[j]],
                 !.n = x.n + 1]

\* a descent that forgets the `i++` after the scan
DescendIndexNoIncrement(x, key) ==
    LET i == ScanDown(x.transactions, x.n - 1, key)
    IN IF i < 0 THEN 0 ELSE i

\* BTreeInsertNonFull, internal branch: the child index chosen before any
\* split (lines 161-164)
DescendIndex(x, key) == ScanDown(x.transactions, x.n - 1, key) + 1

\* a descent that stays in the lower half after a split
AfterSplitIndexStay(x, i, key) == i

\* the child index after the split of children[i] (lines 173-175)
AfterSplitIndex(x, i, key) ==
    IF KeyLess(x.transactions[i].time_key, key) THEN i + 1 ELSE i

\* BTreeInsertNonFull (lines 149-179): the heap after the call
RECURSIVE BTreeInsertNonFull(_, _, _)
BTreeInsertNonFull(h, x, t) ==
    IF h[x].is_leaf
        THEN [h EXCEPT ![x] = LeafInsert(h[x], t)]
        ELSE
            LET i == DescendIndex(h[x], t.time_key)
                h1 == IF h[x].children[i] = NULL
                        THEN [createBTreeNode(h, TRUE) EXCEPT
                                 ![x].children[i] = Len(h) + 1]
                        ELSE h
                c == h1[x].children[i]
            IN IF h1[c].n = MAX_TRANSACTIONS
                THEN LET h2 == BTreeSplitChild(h1, x, i, c)
                         i2 == AfterSplitIndex(h2[x], i, t.time_key)
                     IN BTreeInsertNonFull(h2, h2[x].children[i2], t)
                ELSE BTreeInsertNonFull(h1, c, t)

\* insertTransaction (lines 182-201): the heap and *root after the call
insertTransaction(h, root, t) ==
    LET h0 == IF root = NULL THEN createBTreeNode(h, TRUE) ELSE h
        r == IF root = NULL THEN Len(h0) ELSE root
    IN IF h0[r].n = MAX_TRANSACTIONS
        THEN LET h1 == createBTreeNode(h0, FALSE)
                 s == Len(h1)
                 h2 == [h1 EXCEPT ![s].children[0] = r]
                 h3 == BTreeSplitChild(h2, s, 0, r)
             IN [heap |-> BTreeInsertNonFull(h3, s, t), root |-> s]
        ELSE [heap |-> BTreeInsertNonFull(h0, r, t), root |-> r]

\* the calls that insertTransaction makes, in order: for each call of
\* BTreeInsertNonFull(x, t) the key count of x, and for each call of
\* BTreeSplitChild(x, i, y) the key counts of x and y and the index i, all as
\* they are when the call is made
Call(fn, x_n, y_n, i) == [fn |-> fn, x_n |-> x_n, y_n |-> y_n, i |-> i]

RECURSIVE BTreeInsertNonFullCalls(_, _, _)
BTreeInsertNonFullCalls(h, x, t) ==
    <<Call("BTreeInsertNonFull", h[x].n, 0, 0)>>
    \o (IF h[x].is_leaf
            THEN <<>>
            ELSE
                LET i == DescendIndex(h[x], t.time_key)
                    h1 == IF h[x].children[i] = NULL
                            THEN [createBTreeNode(h, TRUE) EXCEPT
                                     ![x].children[i] = Len(h) + 1]
                            ELSE h
                    c == h1[x].children[i]
                IN IF h1[c].n = MAX_TRANSACTIONS
                    THEN LET h2 == BTreeSplitChild(h1, x, i, c)
                             i2 == AfterSplitIndex(h2[x], i, t.time_key)
                         IN <<Call("BTreeSplitChild", h1[x].n, h1[c].n, i)>>
                            \o BTreeInsertNonFullCalls(h2, h2[x].children[i2], t)
                    ELSE BTreeInsertNonFullCalls(h1, c, t))

insertTransactionCalls(h, root, t) ==
    LET h0 == IF root = NULL THEN createBTreeNode(h, TRUE) ELSE h
        r == IF root = NULL THEN Len(h0) ELSE root
    IN IF h0[r].n = MAX_TRANSACTIONS
        THEN LET h1 == createBTreeNode(h0, FALSE)
                 s == Len(h1)
                 h2 == [h1 EXCEPT ![s].children[0] = r]
                 h3 == BTreeSplitChild(h2, s, 0, r)
             IN <<Call("BTreeSplitChild", h2[s].n, h2[r].n, 0)>>
                \o BTreeInsertNonFullCalls(h3, s, t)
        ELSE BTreeInsertNonFullCalls(h0, r, t)

\* printBTreeTransactions (lines 204-230): the transactions in the order
\* they are printed
RECURSIVE printBTreeTransactions(_, _)
RECURSIVE PrintFrom(_, _, _)
PrintFrom(h, x, i) ==
    IF i < h[x].n
        THEN printBTreeTransactions(h, h[x].children[i])
             \o <<h[x].transactions[i]>>
             \o PrintFrom(h, x, i + 1)
        ELSE printBTreeTransactions(h, h[x].children[i])

printBTreeTransactions(h, x) ==
    IF x = NULL THEN <<>> ELSE PrintFrom(h, x, 0)

\* findTransactionByID (lines 100-114): TRUE when the result is not NULL
RECURSIVE findTransactionByID(_, _, _)
RECURSIVE FindFrom(_, _, _, _)
\* a search that does not look below the last child
FindFromNoLastChild(h, x, i, transactionId) ==
    IF i < h[x].n
        THEN \/ h[x].transactions[i].id = transactionId
             \/ findTransactionByID(h, h[x].children[i], transactionId)
             \/ FindFrom(h, x, i + 1, transactionId)
        ELSE FALSE

FindFrom(h, x, i, transactionId) ==
    IF i < h[x].n
        THEN \/ h[x].transactions[i].id = transactionId
             \/ findTransactionByID(h, h[x].children[i], transactionId)
             \/ FindFrom(h, x, i + 1, transactionId)
        ELSE findTransactionByID(h, h[x].children[h[x].n], transactionId)

findTransactionByID(h, x, transactionId) ==
    IF x = NULL THEN FALSE ELSE FindFrom(h, x, 0, transactionId)

\* ---- B. hash map operations ---------------------------------------------

\* 32-bit int arithmetic of hashFunction: unary minus, and the C remainder
\* (truncating towards zero).  INT_MIN is -2^31, written so that no
\* intermediate value leaves the 32-bit range.  -INT_MIN does not fit an int:
\* Neg32 gives the two's complement result for it, and HashOutcomes below
\* lists what else a build can make of that overflow.
INT_MIN == -(2 ^ 30) - (2 ^ 30)
Neg32(v) == IF v = INT_MIN THEN INT_MIN ELSE -v
CRem(a, b) == IF a >= 0 \/ a % b = 0 THEN a % b ELSE (a % b) - b

\* hashFunction (lines 234-237)
hashFunction(customerId) ==
    CRem(IF customerId < 0 THEN Neg32(customerId) ELSE customerId, HASH_MAP_SIZE)

\* a lookup that only looks at the head of the chain
ChainFindHeadOnly(cs, current, customerId) ==
    IF current = NULL THEN NULL
    ELSE IF cs[current].id = customerId THEN current
    ELSE NULL

\* findCustomer (lines 245-255): the Customer pointer, or NULL
RECURSIVE ChainFind(_, _, _)
ChainFind(cs, current, customerId) ==
    IF current = NULL THEN NULL
    ELSE IF cs[current].id = customerId THEN current
    ELSE ChainFind(cs, cs[current].next, customerId)

findCustomer(tbl, cs, customerId) ==
    ChainFind(cs, tbl[hashFunction(customerId)], customerId)

\* hashFunction for an id whose negation overflows (undefined behaviour): the
\* negation wraps and the remainder of INT_MIN is returned; or the compiler,
\* taking the negated value to be non-negative, computes the remainder
\* unsigned and returns 2^31 mod HASH_MAP_SIZE; or the overflow traps.  For
\* every other id the one value hashFunction returns.
HashOutcomes(customerId) ==
    IF customerId = INT_MIN
        THEN {[trap |-> FALSE, index |-> hashFunction(customerId)],
              [trap |-> FALSE, index |-> (HASH_MAP_SIZE - (INT_MIN % HASH_MAP_SIZE)) % HASH_MAP_SIZE],
              [trap |-> TRUE, index |-> 0]}
        ELSE {[trap |-> FALSE, index |-> hashFunction(customerId)]}

\* ---- C. core fraud detection logic -------------------------------------

\* checkVelocitySpike (lines 260-289)
RECURSIVE checkVelocitySpike(_, _, _)
RECURSIVE VelocityFrom(_, _, _, _, _)
VelocityFrom(h, x, i, count, cutoff_time) ==
    IF i < h[x].n
        THEN LET c1 == count + checkVelocitySpike(h, h[x].children[i], cutoff_time)
             IN IF h[x].transactions[i].date_time >= cutoff_time
                    THEN VelocityFrom(h, x, i + 1, c1 + 1, cutoff_time)
                    ELSE c1
        ELSE count + checkVelocitySpike(h, h[x].children[h[x].n], cutoff_time)

checkVelocitySpike(h, x, cutoff_time) ==
    IF x = NULL THEN 0 ELSE VelocityFrom(h, x, 0, 0, cutoff_time)

\* checkTransactionSpike (lines 292-316): what one key adds to
\* <<*debit_fraud_count, *credit_fraud_count>>
SpikeOfKey(t, debit_threshold, credit_threshold) ==
    IF t.type = "D" /\ t.amount > debit_threshold THEN <<1, 0>>
    ELSE IF t.type = "C" /\ t.amount > credit_threshold THEN <<0, 1>>
    ELSE <<0, 0>>

RECURSIVE checkTransactionSpike(_, _, _, _, _)
RECURSIVE SpikeFrom(_, _, _, _, _, _)
SpikeFrom(h, x, i, debit_threshold, credit_threshold, counts) ==
    IF i < h[x].n
        THEN LET c1 == checkTransactionSpike(h, h[x].children[i],
                            debit_threshold, credit_threshold, counts)
                 k == SpikeOfKey(h[x].transactions[i], debit_threshold, credit_threshold)
             IN SpikeFrom(h, x, i + 1, debit_threshold, credit_threshold,
                          <<c1[1] + k[1], c1[2] + k[2]>>)
        ELSE checkTransactionSpike(h, h[x].children[h[x].n],
                            debit_threshold, credit_threshold, counts)

checkTransactionSpike(h, x, debit_threshold, credit_threshold, counts) ==
    IF x = NULL THEN counts
    ELSE SpikeFrom(h, x, 0, debit_threshold, credit_threshold, counts)

\* a classification that compares with > where the code has >=
VelocityLevelStrict(velocity_count) ==
    IF velocity_count > TXN_LIMIT_PER_HOUR THEN "Critical"
    ELSE IF velocity_count > TXN_WARNING_THRESHOLD THEN "Warning"
    ELSE "Normal"

\* the velocity branch of analyzeCustomerForFraud (lines 345-354)
VelocityLevel(velocity_count) ==
    IF velocity_count >= TXN_LIMIT_PER_HOUR THEN "Critical"
    ELSE IF velocity_count >= TXN_WARNING_THRESHOLD THEN "Warning"
    ELSE "Normal"

\* debit_fraud_count before the high-value scan (lines 332, 348)
VelocityIncident(velocity_count) ==
    IF velocity_count >= TXN_LIMIT_PER_HOUR THEN 1 ELSE 0

\* ---- what a handler reports --------------------------------------------
Report(kind, cust, txn) ==
    [kind |-> kind, cust |-> cust, txn |-> txn,
     index |-> 0,
     velocity_count |-> 0, level |-> "none",
     debit_fraud_count |-> 0, credit_fraud_count |-> 0,
     history |-> <<>>]

\* analyzeCustomerForFraud (lines 318-369), for a customer that was found
\* and has transactions
AnalysisReport(h, customer, customerId, current_time) ==
    LET cutoff_time == current_time - SECONDS_IN_HOUR
        velocity_count == checkVelocitySpike(h, customer.b_tree_root, cutoff_time)
        counts == checkTransactionSpike(h, customer.b_tree_root,
                      customer.debit_threshold, customer.credit_threshold,
                      <<VelocityIncident(velocity_count), 0>>)
    IN [Report("analysis", customerId, 0) EXCEPT
            !.velocity_count = velocity_count,
            !.level = VelocityLevel(velocity_count),
            !.debit_fraud_count = counts[1],
            !.credit_fraud_count = counts[2]]

\* ---- D. initialization and menu handlers --------------------------------

\* a customer that is handed the node allocated before its own leaf
createCustomerSharedRoot(id, name, debit_thr, credit_thr, root) ==
    [id |-> id, name |-> name,
     b_tree_root |-> IF root > 1 THEN root - 1 ELSE root,
     debit_threshold |-> debit_thr, credit_threshold |-> credit_thr,
     next |-> NULL]

\* createCustomer (lines 374-388); root is the leaf it allocates
createCustomer(id, name, debit_thr, credit_thr, root) ==
    [id |-> id, name |-> name, b_tree_root |-> root,
     debit_threshold |-> debit_thr, credit_threshold |-> credit_thr,
     next |-> NULL]

\* generateTransaction (lines 391-409); rnd is the value of rand()
generateTransaction(id, amount, type, current_time, rnd) ==
    Transaction(TimeKey(current_time, rnd % KEY_SCALE),
                id, amount, current_time, type)

\* number of transactions accepted so far, over all customers
RECURSIVE SumCard(_, _)
SumCard(bags, i) ==
    IF i = 0 THEN 0 ELSE BagCardinality(bags[i]) + SumCard(bags, i - 1)

TotalAdded == SumCard(added, Len(added))

\* main (lines 578-586): the table is cleared, nothing is allocated
Init ==
    /\ nodes = <<>>
    /\ customers = <<>>
    /\ table = [b \in 0 .. (HASH_MAP_SIZE - 1) |-> NULL]
    /\ now = StartTime
    /\ ticks = 0
    /\ added = <<>>
    /\ out = Report("start", 0, 0)

\* handleAddCustomer (lines 416-465) with findCustomer and insertCustomer
\* (lines 239-243), for the bucket index that hashFunction returned; the
\* success message prints the index (line 464)
handleAddCustomerAt(id, name, debit_thr, credit_thr, index) ==
    LET existing == ChainFind(customers, table[index], id)
        newCustomer == Len(customers) + 1
    IN IF existing # NULL
        THEN /\ out' = Report("customer_exists", id, 0)
             /\ UNCHANGED <<nodes, customers, table, now, ticks, added>>
        ELSE /\ nodes' = createBTreeNode(nodes, TRUE)
             /\ customers' = Append(customers,
                    [createCustomer(id, name, debit_thr, credit_thr, Len(nodes) + 1)
                        EXCEPT !.next = table[index]])
             /\ table' = [table EXCEPT ![index] = newCustomer]
             /\ added' = Append(added, EmptyBag)
             /\ out' = [Report("customer_added", id, 0) EXCEPT !.index = index]
             /\ UNCHANGED <<now, ticks>>

\* an add-customer handler without the duplicate check of lines 430-434
handleAddCustomerNoCheck(id, name, debit_thr, credit_thr) ==
    /\ nodes' = createBTreeNode(nodes, TRUE)
    /\ customers' = Append(customers,
            [createCustomer(id, name, debit_thr, credit_thr, Len(nodes) + 1)
                EXCEPT !.next = table[hashFunction(id)]])
    /\ table' = [table EXCEPT ![hashFunction(id)] = Len(customers) + 1]
    /\ added' = Append(added, EmptyBag)
    /\ out' = [Report("customer_added", id, 0) EXCEPT !.index = hashFunction(id)]
    /\ UNCHANGED <<now, ticks>>

handleAddCustomer(id, name, debit_thr, credit_thr) ==
    handleAddCustomerAt(id, name, debit_thr, credit_thr, hashFunction(id))

\* handleAddTransaction (lines 467-531)
handleAddTransaction(custId, transId, amount, type, rnd) ==
    LET customer == findCustomer(table, customers, custId)
    IN IF customer = NULL
        THEN /\ out' = Report("customer_not_found", custId, transId)
             /\ UNCHANGED <<nodes, customers, table, now, ticks, added>>
        ELSE IF findTransactionByID(nodes, customers[customer].b_tree_root, transId)
        THEN /\ out' = Report("transaction_exists", custId, transId)
             /\ UNCHANGED <<nodes, customers, table, now, ticks, added>>
        ELSE IF type # "D" /\ type # "C"
        THEN /\ out' = Report("invalid_type", custId, transId)
             /\ UNCHANGED <<nodes, customers, table, now, ticks, added>>
        ELSE LET t == generateTransaction(transId, amount, type, now, rnd)
                 r == insertTransaction(nodes, customers[customer].b_tree_root, t)
             IN /\ nodes' = r.heap
                /\ customers' = [customers EXCEPT ![customer].b_tree_root = r.root]
                /\ added' = [added EXCEPT ![customer] = @ (+) SetToBag({t})]
                /\ out' = Report("transaction_added", custId, transId)
                /\ UNCHANGED <<table, now, ticks>>

\* an analysis that empties the tree it has reported on
handleAnalyzeCustomerClearing(custId) ==
    LET customer == findCustomer(table, customers, custId)
    IN IF customer = NULL
        THEN /\ out' = Report("customer_not_found", custId, 0)
             /\ UNCHANGED <<nodes, customers, table, now, ticks, added>>
        ELSE IF nodes[customers[customer].b_tree_root].n = 0
        THEN /\ out' = Report("no_transactions", custId, 0)
             /\ UNCHANGED <<nodes, customers, table, now, ticks, added>>
        ELSE /\ out' = AnalysisReport(nodes, customers[customer], custId, now)
             /\ nodes' = [nodes EXCEPT ![customers[customer].b_tree_root].n = 0]
             /\ UNCHANGED <<customers, table, now, ticks, added>>

\* handleAnalyzeCustomer (lines 533-545) with analyzeCustomerForFraud
\* (lines 318-369)
handleAnalyzeCustomer(custId) ==
    LET customer == findCustomer(table, customers, custId)
    IN /\ out' =
            IF customer = NULL
                THEN Report("customer_not_found", custId, 0)
            ELSE IF \/ customers[customer].b_tree_root = NULL
                    \/ nodes[customers[customer].b_tree_root].n = 0
                THEN Report("no_transactions", custId, 0)
            ELSE AnalysisReport(nodes, customers[customer], custId, now)
       /\ UNCHANGED <<nodes, customers, table, now, ticks, added>>

\* handleShowHistory (lines 547-573)
handleShowHistory(custId) ==
    LET customer == findCustomer(table, customers, custId)
    IN /\ out' =
            IF customer = NULL
                THEN Report("customer_not_found", custId, 0)
            ELSE IF \/ customers[customer].b_tree_root = NULL
                    \/ nodes[customers[customer].b_tree_root].n = 0
                THEN Report("no_transactions", custId, 0)
            ELSE [Report("history", custId, 0) EXCEPT
                    !.history = printBTreeTransactions(nodes,
                                    customers[customer].b_tree_root)]
       /\ UNCHANGED <<nodes, customers, table, now, ticks, added>>

\* the wall clock advances between two menu choices
Tick(d) ==
    /\ now' = now + d
    /\ ticks' = ticks + 1
    /\ UNCHANGED <<nodes, customers, table, added, out>>

\* ---- the variant fraud_detection_Naitik.c ---------------------------------
\* The variant has the same T, MAX_TRANSACTIONS, MAX_CHILDREN and node layout
\* (its lines 10-12, 29-34), a table of 10 buckets, transactions without a
\* time_key, a tree keyed on the transaction id, and no node splitting.  Its
\* heaps and its table live in the same variables.
NAITIK_HASH_MAP_SIZE == 10

\* Transaction (lines 19-27), without the fields that are only printed
Naitik_Transaction(id, amount, date_time, type) ==
    [id |-> id, amount |-> amount, date_time |-> date_time, type |-> type]

Naitik_Uninit == Naitik_Transaction(0, 0, 0, "?")

\* createBTreeNode (lines 51-63)
Naitik_NewBTreeNode(leaf) ==
    [transactions |-> [j \in TxnIdx |-> Naitik_Uninit],
     children |-> [j \in ChildIdx |-> NULL],
     n |-> 0,
     is_leaf |-> leaf]

Naitik_createBTreeNode(h, leaf) == Append(h, Naitik_NewBTreeNode(leaf))

\* the scan `while (i >= 0 && x->transactions[i].id > t.id)` of insertNonFull
RECURSIVE Naitik_ScanDown(_, _, _)
Naitik_ScanDown(trs, i, id) ==
    IF i >= 0 /\ trs[i].id > id
        THEN Naitik_ScanDown(trs, i - 1, id)
        ELSE i

\* insertNonFull, leaf branch (lines 70-77)
Naitik_LeafInsert(x, t) ==
    LET i == Naitik_ScanDown(x.transactions, x.n - 1, t.id)
    IN [x EXCEPT !.transactions =
                    [j \in TxnIdx |->
                        IF j = i + 1 THEN t
                        ELSE IF j > i + 1 /\ j <= x.n THEN x.transactions[j - 1]
                        ELSE x.transactions[j]],
                 !.n = x.n + 1]

\* insertNonFull (lines 67-94): the heap after the call; a full child makes
\* it return without inserting
RECURSIVE Naitik_insertNonFull(_, _, _)
Naitik_insertNonFull(h, x, t) ==
    IF h[x].is_leaf
        THEN [h EXCEPT ![x] = Naitik_LeafInsert(h[x], t)]
        ELSE
            LET i == Naitik_ScanDown(h[x].transactions, h[x].n - 1, t.id) + 1
            IN IF h[x].children[i] = NULL
                THEN Naitik_insertNonFull(
                        [Naitik_createBTreeNode(h, TRUE) EXCEPT
                            ![x].children[i] = Len(h) + 1],
                        Len(h) + 1, t)
               ELSE IF h[h[x].children[i]].n = MAX_TRANSACTIONS
                THEN h
               ELSE Naitik_insertNonFull(h, h[x].children[i], t)

\* an insertTransaction without the test for a full root
Naitik_insertTransactionNoFullCheck(h, root, t) ==
    LET h0 == IF root = NULL THEN Naitik_createBTreeNode(h, TRUE) ELSE h
        r == IF root = NULL THEN Len(h0) ELSE root
    IN [heap |-> Naitik_insertNonFull(h0, r, t), root |-> r]

\* insertTransaction (lines 96-106): the heap and *root after the call; a
\* full root only prints a warning
Naitik_insertTransaction(h, root, t) ==
    LET h0 == IF root = NULL THEN Naitik_createBTreeNode(h, TRUE) ELSE h
        r == IF root = NULL THEN Len(h0) ELSE root
    IN IF h0[r].n = MAX_TRANSACTIONS
        THEN [heap |-> h0, root |-> r]
        ELSE [heap |-> Naitik_insertNonFull(h0, r, t), root |-> r]

\* hashFunction (lines 136-138), findCustomer (lines 147-157)
Naitik_hashFunction(customerId) == CRem(customerId, NAITIK_HASH_MAP_SIZE)

Naitik_findCustomer(tbl, cs, customerId) ==
    ChainFind(cs, tbl[Naitik_hashFunction(customerId)], customerId)

\* createCustomer (lines 226-239); root is the leaf it allocates
Naitik_createCustomer(id, name, threshold, root) ==
    [id |-> id, name |-> name, b_tree_root |-> root,
     fraud_threshold |-> threshold, next |-> NULL]

\* generateTransaction (lines 241-252); rnd is the value of rand()
Naitik_generateTransaction(id, amount, type, current_time, rnd) ==
    Naitik_Transaction(id, amount, current_time + (rnd % 1000), type)

\* main (lines 395-401)
Naitik_Init ==
    /\ nodes = <<>>
    /\ customers = <<>>
    /\ table = [b \in 0 .. (NAITIK_HASH_MAP_SIZE - 1) |-> NULL]
    /\ now = StartTime
    /\ ticks = 0
    /\ added = <<>>
    /\ out = Report("start", 0, 0)

\* handleAddCustomer (lines 266-307) with insertCustomer (lines 140-145)
Naitik_handleAddCustomer(id, name, threshold) ==
    LET existing == Naitik_findCustomer(table, customers, id)
        index == Naitik_hashFunction(id)
    IN IF existing # NULL
        THEN /\ out' = Report("customer_exists", id, 0)
             /\ UNCHANGED <<nodes, customers, table, now, ticks, added>>
        ELSE /\ nodes' = Naitik_createBTreeNode(nodes, TRUE)
             /\ customers' = Append(customers,
                    [Naitik_createCustomer(id, name, threshold, Len(nodes) + 1)
                        EXCEPT !.next = table[index]])
             /\ table' = [table EXCEPT ![index] = Len(customers) + 1]
             /\ added' = Append(added, EmptyBag)
             /\ out' = [Report("customer_added", id, 0) EXCEPT !.index = index]
             /\ UNCHANGED <<now, ticks>>

\* handleAddTransaction (lines 312-372): no search for the id, and the
\* success message is printed whatever insertTransaction did
Naitik_handleAddTransaction(custId, transId, amount, type, rnd) ==
    LET customer == Naitik_findCustomer(table, customers, custId)
    IN IF customer = NULL
        THEN /\ out' = Report("customer_not_found", custId, transId)
             /\ UNCHANGED <<nodes, customers, table, now, ticks, added>>
        ELSE IF type # "D" /\ type # "C"
        THEN /\ out' = Report("invalid_type", custId, transId)
             /\ UNCHANGED <<nodes, customers, table, now, ticks, added>>
        ELSE LET t == Naitik_generateTransaction(transId, amount, type, now, rnd)
                 r == Naitik_insertTransaction(nodes, customers[customer].b_tree_root, t)
             IN /\ nodes' = r.heap
                /\ customers' = [customers EXCEPT ![customer].b_tree_root = r.root]
                /\ added' = [added EXCEPT ![customer] = @ (+) SetToBag({t})]
                /\ out' = Report("transaction_added", custId, transId)
                /\ UNCHANGED <<table, now, ticks>>

\* ---- inputs typed at the menu ---------------------------------------------
\* customer ids: 1 and 101 share a bucket; every id is added at most once, so
\* there are never more customers than ids
CustIds == {1, 101}
Names == {"A"}
DebitThresholds == {5000}
CreditThresholds == {10000}
Amounts == {5000, 5001}
CreditAmounts == {10001}
Types == {"D", "C", "X"}
Rands == {0}
TreeRands == {0, 1, 2}
TickSteps == {1, SECONDS_IN_HOUR, SECONDS_IN_HOUR + 1}

\* Transaction ids are only ever compared for equality, so the ids a customer
\* has used are taken to be 1 .. k in the order of their first use: a request
\* carries one of them (a duplicate) or the next unused one.
TxnIdChoices(custId) ==
    LET customer == findCustomer(table, customers, custId)
    IN IF customer = NULL THEN {1}
       ELSE 1 .. (BagCardinality(added[customer]) + 1)

\* ---- specifications ----------------------------------------------------
AddCustomerStep ==
    \E id \in CustIds, name \in Names,
       debit_thr \in DebitThresholds, credit_thr \in CreditThresholds :
            handleAddCustomer(id, name, debit_thr, credit_thr)

AddTransactionStep ==
    /\ TotalAdded < MaxTxns
    /\ \E custId \in CustIds, type \in Types, rnd \in Rands :
        \E transId \in TxnIdChoices(custId) :
        \E amount \in (IF type = "D" THEN Amounts ELSE CreditAmounts) :
            handleAddTransaction(custId, transId, amount, type, rnd)

AnalyzeStep == \E custId \in CustIds : handleAnalyzeCustomer(custId)

ShowHistoryStep == \E custId \in CustIds : handleShowHistory(custId)

TickStep == ticks < MaxTicks /\ \E d \in TickSteps : Tick(d)

\* the whole program, small: several customers, every menu choice
Next ==
    \/ AddCustomerStep
    \/ AddTransactionStep
    \/ AnalyzeStep
    \/ ShowHistoryStep
    \/ TickStep

Spec == Init /\ [][Next]_vars

\* one customer, transactions arriving within one second in any key order
TreeAddCustomer ==
    /\ Len(customers) < 1
    /\ handleAddCustomer(1, "A", 5000, 10000)

TreeAddTransaction ==
    /\ TotalAdded < MaxTreeTxns
    /\ \E rnd \in TreeRands :
            handleAddTransaction(1, TotalAdded + 1, 5001, "D", rnd)

NextTree == TreeAddCustomer \/ TreeAddTransaction

SpecTree == Init /\ [][NextTree]_vars

\* one customer, transactions arriving over a few seconds, enough of them to
\* fill and split an internal root.  rand() falls from one accepted
\* transaction to the next: within a second every transaction sorts before
\* the earlier ones of that second, and after a tick behind everything stored.
MaxDeepTicks == 1

DeepRand == MaxDeepTxns - TotalAdded

DeepAddTransaction ==
    \E transId \in TxnIdChoices(1) :
        /\ transId <= MaxDeepTxns
        /\ handleAddTransaction(1, transId, 5001, "D", DeepRand)

DeepTick == ticks < MaxDeepTicks /\ Tick(1)

NextDeep == TreeAddCustomer \/ DeepAddTransaction \/ DeepTick

SpecDeep == Init /\ [][NextDeep]_vars

\* one customer, enough transactions to reach the hourly limit, and the clock
\* moving by a second, by the velocity window, or by a second more than it
VelAddTransaction ==
    /\ TotalAdded < MaxVelTxns
    /\ handleAddTransaction(1, TotalAdded + 1, 5001, "D", 0)

VelAnalyze == handleAnalyzeCustomer(1)

VelTick == ticks < MaxVelTicks /\ \E d \in TickSteps : Tick(d)

NextVelocity == TreeAddCustomer \/ VelAddTransaction \/ VelAnalyze \/ VelTick

SpecVelocity == Init /\ [][NextVelocity]_vars

\* the directory alone: customers whose ids share a bucket (1, 101, 201) or
\* not (-2), added in any order, under either of two names, and looked up;
\* 301, 2 and 3 are looked up and never added
DirIds == {1, 101, 201, -2}
DirProbeIds == DirIds \cup {301, 2, 3}
DirNames == {"A", "B"}

DirAddCustomer ==
    \E id \in DirIds, name \in DirNames : handleAddCustomer(id, name, 5000, 10000)

DirShowHistory == \E custId \in DirProbeIds : handleShowHistory(custId)

NextDirectory == DirAddCustomer \/ DirShowHistory

SpecDirectory == Init /\ [][NextDirectory]_vars

\* two customers whose ids share a bucket, each with a tree that grows until
\* its root splits, and the analysis of either
PairIds == {1, 101}

\* rand() for the transaction a customer makes after k others: 0, 2, 1, 0, ...
\* so that keys arrive neither in rising nor in falling order
PairRand(k) == (2 * k) % 3

PairAddCustomer == \E id \in PairIds : handleAddCustomer(id, "A", 5000, 10000)

PairAddTransaction ==
    \E custId \in PairIds :
        LET customer == findCustomer(table, customers, custId)
        IN /\ customer # NULL
           /\ BagCardinality(added[customer]) < MaxPairTxns
           /\ handleAddTransaction(custId, BagCardinality(added[customer]) + 1,
                                    5001, "D",
                                    PairRand(BagCardinality(added[customer])))

PairAnalyze == \E custId \in PairIds : handleAnalyzeCustomer(custId)

NextTwoTrees == PairAddCustomer \/ PairAddTransaction \/ PairAnalyze

SpecTwoTrees == Init /\ [][NextTwoTrees]_vars

\* one customer, transactions arriving within one second with rand() values
\* 10 .. 60 in any order, until the leaf root has split
SplitRands == {10, 20, 30, 40, 50, 60}

SplitAddTransaction ==
    /\ TotalAdded < MaxSplitTxns
    /\ \E rnd \in SplitRands :
            handleAddTransaction(1, TotalAdded + 1, 5001, "D", rnd)

NextRootSplit == TreeAddCustomer \/ SplitAddTransaction

SpecRootSplit == Init /\ [][NextRootSplit]_vars

\* the directory with ids at the ends of the int range.  A request whose id
\* makes hashFunction overflow takes any of its outcomes; once the program
\* has trapped or has indexed the table outside its bounds, what it does next
\* is undefined and is not followed further.
HashIds == {INT_MIN, INT_MIN + 1, -101, -1, 0, 1}

HashAddCustomer ==
    /\ out.kind \notin {"arithmetic_trap", "bucket_out_of_bounds"}
    /\ \E id \in HashIds :
        \E r \in HashOutcomes(id) :
            IF r.trap
                THEN /\ out' = Report("arithmetic_trap", id, 0)
                     /\ UNCHANGED <<nodes, customers, table, now, ticks, added>>
            ELSE IF r.index \notin DOMAIN table
                THEN /\ out' = [Report("bucket_out_of_bounds", id, 0)
                                    EXCEPT !.index = r.index]
                     /\ UNCHANGED <<nodes, customers, table, now, ticks, added>>
            ELSE handleAddCustomerAt(id, "A", 5000, 10000, r.index)

NextHash == HashAddCustomer

SpecHash == Init /\ [][NextHash]_vars

\* the variant: two customers of one bucket, transactions with ids 1 .. 3 in
\* any order and with repeats, more of them than a node can hold
NaitikCustIds == {1, 11}
NaitikTxnIds == {1, 2, 3}
NaitikTypes == {"D", "X"}

NaitikAddCustomer ==
    \E id \in NaitikCustIds : Naitik_handleAddCustomer(id, "A", 5000)

NaitikAddTransaction ==
    /\ TotalAdded < MaxNaitikTxns
    /\ \E custId \in NaitikCustIds, transId \in NaitikTxnIds, type \in NaitikTypes :
            Naitik_handleAddTransaction(custId, transId, 5001, type, 0)

NextNaitik == NaitikAddCustomer \/ NaitikAddTransaction

SpecNaitik == Naitik_Init /\ [][NextNaitik]_vars

\* ---- what a tree holds, read off the heap --------------------------------
CustomerPtrs == 1 .. Len(customers)
RootOf(c) == customers[c].b_tree_root

\* the nodes of the tree below x: x and, for every node, children 0 .. n
RECURSIVE Subtree(_, _)
Subtree(h, x) ==
    IF x = NULL THEN {}
    ELSE {x} \cup UNION {Subtree(h, h[x].children[j]) : j \in 0 .. h[x].n}

\* the keys of node x
KeysOfNode(h, x) == {h[x].transactions[j] : j \in 0 .. (h[x].n - 1)}

\* the transactions stored below x, and how often each is stored
StoredSet(h, x) == UNION {KeysOfNode(h, y) : y \in Subtree(h, x)}

StoredCount(h, x, t) ==
    LET slots == {<<y, j>> \in Subtree(h, x) \X TxnIdx :
                    j < h[y].n /\ h[y].transactions[j] = t}
    IN Cardinality(slots)

\* number of elements of a sequence that are equal to t
OccurrencesIn(s, t) == Cardinality({k \in 1 .. Len(s) : s[k] = t})

IdOccurrencesIn(s, id) == Cardinality({k \in 1 .. Len(s) : s[k].id = id})

\* number of transactions with this id that were handed to insertTransaction
RECURSIVE SumCopies(_, _)
SumCopies(B, S) ==
    IF S = {} THEN 0
    ELSE LET t == CHOOSE u \in S : TRUE
         IN CopiesIn(t, B) + SumCopies(B, S \ {t})

IdCopiesIn(B, id) == SumCopies(B, {t \in BagToSet(B) : t.id = id})

\* the depths at which the tree below x ends: the depth of every leaf, and
\* -1 for a missing child of an internal node
RECURSIVE LeafDepths(_, _, _)
LeafDepths(h, x, d) ==
    IF x = NULL THEN {-1}
    ELSE IF h[x].is_leaf THEN {d}
    ELSE UNION {LeafDepths(h, h[x].children[j], d + 1) : j \in 0 .. h[x].n}

\* number of levels on the leftmost path
RECURSIVE Height(_, _)
Height(h, x) ==
    IF x = NULL THEN 0
    ELSE IF h[x].is_leaf THEN 1
    ELSE 1 + Height(h, h[x].children[0])

\* ---- C1 ------------------------------------------------------------------
\* C1 (population preservation): for every customer, the in-order traversal
\* of the tree visits exactly as many transactions as were inserted, every
\* inserted transaction is visited as often as it was inserted, and every id
\* is visited as often as it was inserted: a split loses and duplicates none.
PopulationPreserved ==
    \A c \in CustomerPtrs :
        LET s == printBTreeTransactions(nodes, RootOf(c))
        IN /\ Len(s) = BagCardinality(added[c])
           /\ \A t \in BagToSet(added[c]) : OccurrencesIn(s, t) = CopiesIn(t, added[c])
           /\ \A k \in 1 .. Len(s) :
                IdOccurrencesIn(s, s[k].id) = IdCopiesIn(added[c], s[k].id)

\* an internal node other than the root exists: an internal node was split
PopulationWitness ==
    \E c \in CustomerPtrs :
        /\ \E x \in Subtree(nodes, RootOf(c)) : x # RootOf(c) /\ ~nodes[x].is_leaf
        /\ BagCardinality(added[c]) = MaxDeepTxns

\* ---- C3 ------------------------------------------------------------------
\* C3 (sortedness): the in-order traversal visits the transactions in
\* non-decreasing time_key order, equal time_keys included.
Sortedness ==
    \A c \in CustomerPtrs :
        LET s == printBTreeTransactions(nodes, RootOf(c))
        IN \A k \in 1 .. (Len(s) - 1) : KeyLeq(s[k].time_key, s[k + 1].time_key)

\* a tree of two levels whose traversal meets two equal time_keys, and a
\* transaction that was inserted later but is visited earlier
SortednessWitness ==
    \E c \in CustomerPtrs :
        LET s == printBTreeTransactions(nodes, RootOf(c))
        IN /\ ~nodes[RootOf(c)].is_leaf
           /\ \E k \in 1 .. (Len(s) - 1) : s[k].time_key = s[k + 1].time_key
           /\ \E k \in 1 .. (Len(s) - 1) : s[k].id > s[k + 1].id

\* ---- C4 ------------------------------------------------------------------
\* C4 (key-count bounds): every node other than the root holds between T-1
\* and 2T-1 keys, the root between 0 and 2T-1, and every internal node with
\* n keys has exactly n+1 children: children 0 .. n are set, the others NULL.
KeyCountBounds ==
    \A c \in CustomerPtrs :
        \A x \in Subtree(nodes, RootOf(c)) :
            /\ nodes[x].n >= (IF x = RootOf(c) THEN 0 ELSE T - 1)
            /\ nodes[x].n <= 2 * T - 1
            /\ ~nodes[x].is_leaf =>
                \A j \in ChildIdx : (nodes[x].children[j] # NULL) <=> (j <= nodes[x].n)

\* a split of a child of the root has happened, one node is full and one
\* node is at the minimum
KeyCountWitness ==
    \E c \in CustomerPtrs :
        /\ ~nodes[RootOf(c)].is_leaf
        /\ nodes[RootOf(c)].n >= 2
        /\ \E x \in Subtree(nodes, RootOf(c)) : nodes[x].n = 2 * T - 1
        /\ \E x \in Subtree(nodes, RootOf(c)) : x # RootOf(c) /\ nodes[x].n = T - 1

\* ---- C5 ------------------------------------------------------------------
UniformDepth ==
    \A c \in CustomerPtrs : Cardinality(LeafDepths(nodes, RootOf(c), 1)) = 1

\* a step that inserts into customer c's tree makes it one level higher when
\* the root was full, and leaves its height alone otherwise
HeightStep ==
    \A c \in CustomerPtrs :
        (c \in 1 .. Len(customers') /\ added'[c] # added[c]) =>
            Height(nodes', customers'[c].b_tree_root) =
                Height(nodes, RootOf(c))
                + (IF nodes[RootOf(c)].n = MAX_TRANSACTIONS THEN 1 ELSE 0)

\* C5 (uniform depth): all leaves of a customer's tree are at the same depth;
\* the height grows by exactly one when the insert finds the root full and
\* does not change otherwise.
UniformDepthAndGrowth == [][UniformDepth' /\ HeightStep]_vars

\* a tree of three levels: the root was split twice
UniformDepthWitness ==
    \E c \in CustomerPtrs :
        /\ Height(nodes, RootOf(c)) = 3
        /\ LeafDepths(nodes, RootOf(c), 1) = {3}

\* ---- C6 ------------------------------------------------------------------
\* C6 (subtree separation): for every internal node and key index i, every
\* time_key below children[i] is <= keys[i].time_key and every time_key below
\* children[i+1] is >= keys[i].time_key.
SubtreeSeparation ==
    \A c \in CustomerPtrs :
        \A x \in Subtree(nodes, RootOf(c)) :
            ~nodes[x].is_leaf =>
                \A i \in 0 .. (nodes[x].n - 1) :
                    /\ \A t \in StoredSet(nodes, nodes[x].children[i]) :
                            KeyLeq(t.time_key, nodes[x].transactions[i].time_key)
                    /\ \A t \in StoredSet(nodes, nodes[x].children[i + 1]) :
                            KeyLeq(nodes[x].transactions[i].time_key, t.time_key)

\* a key of an internal node that has an equal time_key on either side
SeparationWitness ==
    \E c \in CustomerPtrs :
        \E x \in Subtree(nodes, RootOf(c)) :
            /\ ~nodes[x].is_leaf
            /\ \E i \in 0 .. (nodes[x].n - 1) :
                /\ \E t \in StoredSet(nodes, nodes[x].children[i]) :
                        t.time_key = nodes[x].transactions[i].time_key
                /\ \E t \in StoredSet(nodes, nodes[x].children[i + 1]) :
                        t.time_key = nodes[x].transactions[i].time_key

\* ---- C7 ------------------------------------------------------------------
\* C7 as stated (strict in-node order): within every node
\* keys[i].time_key < keys[i+1].time_key, whatever the tree accepted.
StrictNodeOrder ==
    \A c \in CustomerPtrs :
        \A x \in Subtree(nodes, RootOf(c)) :
            \A i \in 0 .. (nodes[x].n - 2) :
                KeyLess(nodes[x].transactions[i].time_key,
                        nodes[x].transactions[i + 1].time_key)

\* C7 as amended (in-node order): within every node
\* keys[i].time_key <= keys[i+1].time_key; equal time_keys are accepted and
\* stored next to each other.
NodeOrder ==
    \A c \in CustomerPtrs :
        \A x \in Subtree(nodes, RootOf(c)) :
            \A i \in 0 .. (nodes[x].n - 2) :
                KeyLeq(nodes[x].transactions[i].time_key,
                       nodes[x].transactions[i + 1].time_key)

\* a node that holds two equal time_keys next to each other, in a tree that
\* also took a key smaller than one it already held
NodeOrderWitness ==
    \E c \in CustomerPtrs :
        /\ \E x \in Subtree(nodes, RootOf(c)) :
            \E i \in 0 .. (nodes[x].n - 2) :
                nodes[x].transactions[i].time_key = nodes[x].transactions[i + 1].time_key
        /\ \E x \in Subtree(nodes, RootOf(c)) :
            \E i \in 0 .. (nodes[x].n - 2) :
                /\ KeyLess(nodes[x].transactions[i].time_key,
                           nodes[x].transactions[i + 1].time_key)
                /\ nodes[x].transactions[i].id > nodes[x].transactions[i + 1].id

\* ---- steps of the handlers, told by what they report -------------------
\* the customer a report is about
ReportedCustomer(r) == {c \in CustomerPtrs : customers[c].id = r.cust}

\* an analysis was run in this step: the clock and the store stand still and
\* the report is the analysis of the state the step starts in
AnalysisRun ==
    /\ out'.kind = "analysis"
    /\ UNCHANGED <<nodes, customers, table, now, ticks, added>>

\* the key slots in use in customer c's tree, as <<node, index>>
SlotsOf(c) ==
    {<<y, j>> \in Subtree(nodes, RootOf(c)) \X TxnIdx : j < nodes[y].n}

\* ---- C2 ------------------------------------------------------------------
\* time_key order agrees with date_time order in customer c's tree
KeyOrderAgrees(c) ==
    \A t, u \in StoredSet(nodes, RootOf(c)) :
        t.date_time < u.date_time => KeyLess(t.time_key, u.time_key)

RecentCount(c, cutoff) ==
    Cardinality({p \in SlotsOf(c) :
                    nodes[p[1]].transactions[p[2]].date_time >= cutoff})

\* the cutoffs tried: the analyzer's, and each stored date_time and the
\* second after it
Cutoffs(c) ==
    {now - SECONDS_IN_HOUR}
    \cup {t.date_time : t \in StoredSet(nodes, RootOf(c))}
    \cup {t.date_time + 1 : t \in StoredSet(nodes, RootOf(c))}

\* C2 (range-count correctness): in every tree whose time_key order agrees
\* with its date_time order, checkVelocitySpike(root, c) is the number of
\* stored transactions with date_time >= c, for every cutoff c; a tree with
\* 15 transactions at or after the cutoff and 10 older ones yields 15.
RangeCountCorrect ==
    \A c \in CustomerPtrs :
        KeyOrderAgrees(c) =>
            \A cutoff \in Cutoffs(c) :
                checkVelocitySpike(nodes, RootOf(c), cutoff) = RecentCount(c, cutoff)

\* ---- C8 ------------------------------------------------------------------
StoredIds(c) == {t.id : t \in StoredSet(nodes, RootOf(c))}

\* a step in which an add-transaction request for an existing customer was
\* answered
TransactionRequest(c) ==
    /\ now' = now
    /\ c \in ReportedCustomer(out')
    /\ out'.kind \in {"transaction_exists", "transaction_added", "invalid_type"}

\* C8 (duplicate transaction id rejection): a request whose id is stored
\* anywhere in the customer's tree is rejected and leaves the store, the tree
\* and the length of the history as they were; a request that is rejected
\* as a duplicate carries an id that is stored in the tree.
DuplicateIdRejected ==
    [][\A c \in CustomerPtrs :
        TransactionRequest(c) =>
            /\ (out'.txn \in StoredIds(c)) <=> (out'.kind = "transaction_exists")
            /\ out'.kind = "transaction_exists" =>
                /\ UNCHANGED <<nodes, customers, table, added>>
                /\ Len(printBTreeTransactions(nodes', customers'[c].b_tree_root))
                        = Len(printBTreeTransactions(nodes, RootOf(c)))]_vars

\* a rejected request whose id sits in a leaf of a tree of three levels, not
\* at the first key of that leaf
DuplicateIdWitness ==
    /\ out.kind = "transaction_exists"
    /\ \E c \in ReportedCustomer(out) :
        /\ Height(nodes, RootOf(c)) = 3
        /\ \E p \in SlotsOf(c) :
            /\ nodes[p[1]].is_leaf
            /\ p[2] > 0
            /\ nodes[p[1]].transactions[p[2]].id = out.txn

\* ---- C9 ------------------------------------------------------------------
\* number of stored debits above the customer's debit threshold
HighDebits(c) ==
    Cardinality({p \in SlotsOf(c) :
                    /\ nodes[p[1]].transactions[p[2]].type = "D"
                    /\ nodes[p[1]].transactions[p[2]].amount
                            > customers[c].debit_threshold})

\* C9 (debit alert count): whatever the velocity level, the debit-alert count
\* of an analysis is the number of stored transactions of type 'D' whose
\* amount is strictly above the customer's debit threshold.
DebitAlertCountExact ==
    [][AnalysisRun =>
        \A c \in ReportedCustomer(out') : out'.debit_fraud_count = HighDebits(c)]_vars

\* ---- C10 -----------------------------------------------------------------
\* every transaction of customer c is inside the velocity window
AllRecent(c) ==
    \A t \in BagToSet(added[c]) : t.date_time >= now - SECONDS_IN_HOUR

\* C10 (velocity classification): with v the velocity count of an analysis,
\* the level is Critical iff v >= 25, Warning iff 15 <= v < 25 and Normal iff
\* v < 15; when all of the customer's transactions have
\* date_time >= now - 3600, v is their number, so 25 of them give count 25
\* and level Critical.
VelocityClassified ==
    [][AnalysisRun =>
        LET v == out'.velocity_count
        IN /\ (out'.level = "Critical") <=> (v >= 25)
           /\ (out'.level = "Warning") <=> (15 <= v /\ v < 25)
           /\ (out'.level = "Normal") <=> (v < 15)
           /\ \A c \in ReportedCustomer(out') :
                AllRecent(c) => v = BagCardinality(added[c])]_vars

\* an analysis of exactly 25 transactions, all inside the window, some of
\* them made before the clock last moved: count 25, level Critical
VelocityWitness ==
    /\ out.kind = "analysis"
    /\ out.level = "Critical"
    /\ out.velocity_count = 25
    /\ \E c \in ReportedCustomer(out) :
        /\ BagCardinality(added[c]) = 25
        /\ AllRecent(c)
        /\ \E t \in BagToSet(added[c]) : t.date_time < now

\* ---- what the directory holds, read off the heap --------------------------
\* the ids of the records that createCustomer allocated
AddedIds == {customers[c].id : c \in CustomerPtrs}

\* the records chained from `current` on, in chain order
RECURSIVE ChainSeq(_, _)
ChainSeq(cs, current) ==
    IF current = NULL THEN <<>> ELSE <<current>> \o ChainSeq(cs, cs[current].next)

\* the places of the directory: <<bucket, position in its chain>>
DirectoryPlaces ==
    {<<b, k>> \in {i \in DOMAIN table : table[i] # NULL} \X (1 .. Len(customers)) :
        k <= Len(ChainSeq(customers, table[b]))}

RecordAt(p) == ChainSeq(customers, table[p[1]])[p[2]]

\* ---- C11 ----------------------------------------------------------------
\* C11 (chained retrieval): findCustomer(id) returns the record with that id
\* for every id that was added, ids that share a bucket included, and NULL
\* for every id that was never added; a lookup handler reports "not found"
\* only for an id that was never added.
ChainedRetrieval ==
    /\ \A id \in DirProbeIds :
        LET p == findCustomer(table, customers, id)
        IN IF id \in AddedIds
            THEN p \in CustomerPtrs /\ customers[p].id = id
            ELSE p = NULL
    /\ out.kind = "customer_not_found" => out.cust \notin AddedIds
    /\ out.kind = "no_transactions" => out.cust \in AddedIds

\* a lookup that found the last record of a chain of three
ChainedRetrievalWitness ==
    /\ out.kind = "no_transactions"
    /\ \E c1, c2, c3 \in CustomerPtrs :
        /\ table[hashFunction(out.cust)] = c1
        /\ customers[c1].next = c2
        /\ customers[c2].next = c3
        /\ customers[c3].next = NULL
        /\ customers[c3].id = out.cust

\* ---- C12 ----------------------------------------------------------------
\* no two places of the directory hold records with the same id
UniqueIds ==
    \A p, q \in DirectoryPlaces :
        p # q => customers[RecordAt(p)].id # customers[RecordAt(q)].id

\* C12 (duplicate customer rejection): an add-customer request is rejected
\* exactly when its id is present; a rejected request allocates and chains
\* nothing and leaves every record as it was; and no two records reachable
\* from the directory have the same id.
DuplicateCustomerRejected ==
    [][/\ (now' = now /\ out'.kind \in {"customer_exists", "customer_added"}) =>
            /\ (out'.cust \in AddedIds) <=> (out'.kind = "customer_exists")
            /\ out'.kind = "customer_exists" =>
                    UNCHANGED <<nodes, customers, table, added>>
       /\ UniqueIds']_vars

\* a rejected request whose id belongs to a record that is not at the head of
\* its chain
DuplicateCustomerWitness ==
    /\ out.kind = "customer_exists"
    /\ \E p \in DirectoryPlaces :
        /\ p[2] > 1
        /\ customers[RecordAt(p)].id = out.cust

\* ---- C13 ----------------------------------------------------------------
\* no node is reachable from the roots of two customers
NoSharedNode ==
    \A a, b \in CustomerPtrs :
        a # b => Subtree(nodes, RootOf(a)) \cap Subtree(nodes, RootOf(b)) = {}

\* C13 (directory isolation): a step that inserts a transaction into customer
\* a's tree, splits and a new root included, leaves the in-order history of
\* every other customer b as it was, and no tree node is reachable from the
\* roots of two customers.
DirectoryIsolation ==
    [][/\ \A a, b \in CustomerPtrs :
            (a # b /\ added'[a] # added[a]) =>
                printBTreeTransactions(nodes', customers'[b].b_tree_root)
                    = printBTreeTransactions(nodes, RootOf(b))
       /\ NoSharedNode']_vars

\* both customers have a tree whose root was replaced, and the nodes of the
\* two trees lie interleaved in the heap
DirectoryIsolationWitness ==
    \E a, b \in CustomerPtrs :
        /\ a # b
        /\ Height(nodes, RootOf(a)) = 2
        /\ Height(nodes, RootOf(b)) = 2
        /\ \E x \in Subtree(nodes, RootOf(a)) : x < RootOf(b) /\ RootOf(b) < RootOf(a)

\* ---- C14 ----------------------------------------------------------------
\* C14 (analyzer is read-only): a step that reports an analysis leaves the
\* table, every customer record (id, name, thresholds, root, chain link) and
\* every tree node (key count, keys, child links, leaf flag) unchanged, and
\* allocates nothing.
AnalyzerReadOnly ==
    [][out'.kind = "analysis" =>
        /\ table' = table
        /\ customers' = customers
        /\ nodes' = nodes]_vars

\* an analysis of a customer whose tree has two levels, while the other
\* customer has transactions too
AnalyzerReadOnlyWitness ==
    /\ out.kind = "analysis"
    /\ \E c \in ReportedCustomer(out), b \in CustomerPtrs :
        /\ b # c
        /\ Height(nodes, RootOf(c)) = 2
        /\ nodes[RootOf(b)].n > 0

\* ---- C15 ----------------------------------------------------------------
\* the first n keys of a transactions[] array, as a bag
RECURSIVE KeyBag(_, _)
KeyBag(trs, n) ==
    IF n = 0 THEN EmptyBag ELSE KeyBag(trs, n - 1) (+) SetToBag({trs[n - 1]})

\* the fractions of the first n time_keys of a transactions[] array, in order
KeyFractions(trs, n) == [k \in 1 .. n |-> trs[k - 1].time_key[2]]

\* the transaction that this step handed to customer c's insertTransaction
NewTransaction(c) ==
    CHOOSE t \in BagToSet(added'[c]) : CopiesIn(t, added'[c]) > CopiesIn(t, added[c])

\* an insert into customer c's tree finds the root a full leaf
FullLeafRootInsert(c) ==
    /\ added'[c] # added[c]
    /\ nodes[RootOf(c)].is_leaf
    /\ nodes[RootOf(c)].n = 2 * T - 1

\* after it the root has one key, the old median, and two leaves that hold
\* the other four old keys and the new key
SplitRootShape(c) ==
    LET old == nodes[RootOf(c)]
        r == nodes'[customers'[c].b_tree_root]
        left == nodes'[r.children[0]]
        right == nodes'[r.children[1]]
    IN /\ ~r.is_leaf
       /\ r.n = 1
       /\ r.transactions[0] = old.transactions[T - 1]
       /\ r.children[0] # NULL /\ r.children[1] # NULL
       /\ left.is_leaf /\ right.is_leaf
       /\ left.n + right.n = 2 * T - 1
       /\ KeyBag(left.transactions, left.n) (+) KeyBag(right.transactions, right.n)
            (+) SetToBag({old.transactions[T - 1]})
            = KeyBag(old.transactions, old.n) (+) SetToBag({NewTransaction(c)})

\* the six transactions with fractions 10, 20, ..., 60, made in that order
\* within the first second
SixRising ==
    SetToBag({generateTransaction(k, 5001, "D", StartTime, 10 * k) : k \in 1 .. 6})

\* the tree they leave: root <<30>>, leaves <<10, 20>> and <<40, 50, 60>>
SixRisingShape(c) ==
    LET r == nodes[RootOf(c)]
        left == nodes[r.children[0]]
        right == nodes[r.children[1]]
    IN /\ ~r.is_leaf
       /\ r.n = 1
       /\ KeyFractions(r.transactions, r.n) = <<30>>
       /\ left.is_leaf /\ right.is_leaf
       /\ KeyFractions(left.transactions, left.n) = <<10, 20>>
       /\ KeyFractions(right.transactions, right.n) = <<40, 50, 60>>
       /\ \A j \in ChildIdx : j > 1 => r.children[j] = NULL

\* C15 (root split boundary): an insert into a tree whose root is a full leaf
\* yields a root with one key, the old median, and two leaves holding the
\* other four old keys and the new key; the time_keys 10, 20, 30, 40, 50, 60
\* inserted in that order leave root <<30>> over leaves <<10, 20>> and
\* <<40, 50, 60>>.
RootSplitBoundary ==
    [][\A c \in CustomerPtrs :
        /\ FullLeafRootInsert(c) => SplitRootShape(c)
        /\ added'[c] = SixRising => SixRisingShape(c)']_vars

\* the six rising keys have been inserted and the tree has the stated shape
RootSplitWitness ==
    \E c \in CustomerPtrs : added[c] = SixRising /\ SixRisingShape(c)

\* ---- C16 ----------------------------------------------------------------
\* a call of BTreeInsertNonFull gets a node that is not full: the slot
\* transactions[n] that a leaf insert may write exists
InsertNonFullCallSafe(call) ==
    /\ call.x_n < 2 * T - 1
    /\ call.x_n \in TxnIdx

\* a call of BTreeSplitChild gets a parent that is not full and a full child:
\* the slots children[n + 1] and transactions[n] of the parent that the
\* shifts may write exist, and i is one of the parent's child indices
SplitChildCallSafe(call) ==
    /\ call.x_n < 2 * T - 1
    /\ call.y_n = 2 * T - 1
    /\ call.i \in 0 .. call.x_n
    /\ (call.x_n + 1) \in ChildIdx
    /\ call.x_n \in TxnIdx

\* C16 (preemptive split): during every insertTransaction call, every
\* invocation of BTreeInsertNonFull receives a node with fewer than 2T-1 = 5
\* keys and every invocation of BTreeSplitChild a parent with fewer than 5
\* keys and a child with exactly 5, so no index leaves its array.
PreemptiveSplit ==
    [][\A c \in CustomerPtrs :
        added'[c] # added[c] =>
            LET calls == insertTransactionCalls(nodes, RootOf(c), NewTransaction(c))
            IN \A k \in 1 .. Len(calls) :
                IF calls[k].fn = "BTreeSplitChild"
                    THEN SplitChildCallSafe(calls[k])
                    ELSE InsertNonFullCallSafe(calls[k])]_vars

\* an insert that split an internal root and went down three levels: the new
\* transaction sits in a leaf below a root that has a single key
PreemptiveSplitWitness ==
    /\ out.kind = "transaction_added"
    /\ \E c \in ReportedCustomer(out) :
        /\ Height(nodes, RootOf(c)) = 3
        /\ nodes[RootOf(c)].n = 1
        /\ \E p \in SlotsOf(c) :
            /\ nodes[p[1]].is_leaf
            /\ nodes[p[1]].transactions[p[2]].id = out.txn
            /\ out.txn = MaxDeepTxns

\* ---- C17 ----------------------------------------------------------------
\* |id| mod HASH_MAP_SIZE, computed without leaving the 32-bit range
AbsMod(id) ==
    IF id >= 0 THEN id % HASH_MAP_SIZE
    ELSE (HASH_MAP_SIZE - (id % HASH_MAP_SIZE)) % HASH_MAP_SIZE

\* C17 (bucket index range): for every 32-bit id, -2^31 included, an
\* add-customer request neither traps nor indexes the table outside its
\* bounds; hashFunction returns |id| mod B, a value in [0, B), and every
\* record is chained in bucket |id| mod B.
BucketIndexInRange ==
    /\ out.kind \notin {"arithmetic_trap", "bucket_out_of_bounds"}
    /\ out.kind = "customer_added" =>
            /\ out.index = AbsMod(out.cust)
            /\ out.index \in 0 .. (HASH_MAP_SIZE - 1)
    /\ \A p \in DirectoryPlaces : p[1] = AbsMod(customers[RecordAt(p)].id)

\* ---- C18 ----------------------------------------------------------------
\* every tree of the variant is one leaf with at most 2T-1 transactions
NaitikSingleLeaf ==
    \A c \in CustomerPtrs :
        /\ nodes[RootOf(c)].is_leaf
        /\ nodes[RootOf(c)].n <= 2 * T - 1
        /\ Subtree(nodes, RootOf(c)) = {RootOf(c)}
        /\ Len(printBTreeTransactions(nodes, RootOf(c))) <= 2 * T - 1

\* C18 (variant without splitting): an add-transaction request that reaches
\* insertTransaction reports success; when the root already holds 2T-1 = 5
\* keys the call leaves the tree, the records and the table unchanged, the
\* transaction is dropped; and every tree is a single leaf holding at most 5
\* transactions.
NaitikDropsWhenFull ==
    [][/\ \A c \in CustomerPtrs :
            added'[c] # added[c] =>
                /\ out'.kind = "transaction_added"
                /\ nodes[RootOf(c)].n = 2 * T - 1 =>
                        /\ nodes' = nodes
                        /\ customers' = customers
                        /\ table' = table
       /\ NaitikSingleLeaf']_vars

\* a request that was answered with success although its transaction was
\* dropped: the leaf is full, more were handed over than are stored, and the
\* reported id is not in the tree
NaitikDropWitness ==
    /\ out.kind = "transaction_added"
    /\ \E c \in ReportedCustomer(out) :
        /\ nodes[RootOf(c)].n = 2 * T - 1
        /\ BagCardinality(added[c]) > 2 * T - 1
        /\ out.txn \notin StoredIds(c)

====
